---- MODULE Spec2Model ----
(***************************************************************************)
(* Model of src/src/api-utils.ts of the tbDEX workshop wallet:             *)
(*   - isMatchingOffering: credential-to-offering eligibility matching,    *)
(*   - generateExchangeStatusValues / renderOrderStatus: status and label  *)
(*     of an exchange message,                                             *)
(*   - fetchExchanges: projection of every fetched exchange (an ordered    *)
(*     list of messages) to a summary record.                              *)
(*                                                                         *)
(* JavaScript strings whose content the code inspects or builds (close     *)
(* reasons, amounts, payment details, currency codes) are sequences of     *)
(* one-character strings.  Enumerated tags (kind, status, label), ids and  *)
(* timestamps are TLA+ strings.                                            *)
(***************************************************************************)
EXTENDS Integers, Sequences, FiniteSets, TLC

VARIABLES
    offering,         \* isMatchingOffering: the offering argument
    credentials,      \* isMatchingOffering: the credentials argument (JWTs)
    matchResult,      \* isMatchingOffering: its outcome
    exchangeMessage,  \* argument of generateExchangeStatusValues / renderOrderStatus
    status,           \* outcome of generateExchangeStatusValues(exchangeMessage)
    label,            \* outcome of renderOrderStatus(exchangeMessage)
    exchanges,        \* the exchanges the PFI holds for this customer
    fetched,          \* fetchExchanges: what TbdexHttpClient.getExchanges returned
    fetchResult       \* fetchExchanges: its outcome

vars == <<offering, credentials, matchResult, exchangeMessage, status, label,
          exchanges, fetched, fetchResult>>

matchVars == <<offering, credentials, matchResult>>
statusVars == <<exchangeMessage, status, label>>
exchangeVars == <<exchanges, fetched, fetchResult>>

-----------------------------------------------------------------------------
(* Bounds of the model.                                                    *)

MaxFields == 2      \* constraints in an offering's field list
MaxRest == 1        \* credentials after the first one
MaxWords == 2       \* fragments a close reason is built from
MaxExchanges == 2   \* exchanges held by the PFI
MaxMessages == 4    \* messages in one exchange

-----------------------------------------------------------------------------
(* JavaScript values and string operations.                                *)

\* the values undefined and null where a string may stand
Undefined == <<"undefined">>
Null == <<"null">>

\* the outcome variables before the first call
NotCalled == "not called"

Truthy(v) == v # Undefined /\ v # Null /\ v # <<>>

\* a ?? b
Coalesce(a, b) == IF a = Undefined \/ a = Null THEN b ELSE a

\* String(v), as the + operator applies it to an operand
ToStr(v) ==
    IF v = Undefined THEN <<"u", "n", "d", "e", "f", "i", "n", "e", "d">>
    ELSE IF v = Null THEN <<"n", "u", "l", "l">>
    ELSE v

UpperToLower ==
    [A |-> "a", B |-> "b", C |-> "c", D |-> "d", E |-> "e", F |-> "f", G |-> "g",
     H |-> "h", I |-> "i", J |-> "j", K |-> "k", L |-> "l", M |-> "m", N |-> "n",
     O |-> "o", P |-> "p", Q |-> "q", R |-> "r", S |-> "s", T |-> "t", U |-> "u",
     V |-> "v", W |-> "w", X |-> "x", Y |-> "y", Z |-> "z"]

\* String.prototype.toLowerCase
toLowerCase(s) ==
    [i \in 1..Len(s) |-> IF s[i] \in DOMAIN UpperToLower THEN UpperToLower[s[i]] ELSE s[i]]

\* String.prototype.includes: sub occurs in s as a substring
includes(s, sub) ==
    \E i \in 1..(Len(s) - Len(sub) + 1) : SubSeq(s, i, i + Len(sub) - 1) = sub

\* Array.prototype.includes: x is an element of the list
arrayIncludes(list, x) == \E i \in 1..Len(list) : list[i] = x

\* obj.field of an object whose property may be missing
Prop(obj, field) == IF field \in DOMAIN obj THEN obj[field] ELSE Undefined

\* undefined where an object may stand: it has no property
UndefinedObject == [k \in {} |-> Undefined]

\* obj?.field
OptProp(obj, field) == IF obj = UndefinedObject THEN Undefined ELSE Prop(obj, field)

-----------------------------------------------------------------------------
(* isMatchingOffering                                                      *)

SubjectKeys == {"name", "country"}
SubjectValue == [name |-> "Alice", country |-> "KE"]

Issuers == {"did:dht:issuer1", "did:dht:issuer2"}

TypeLists ==
    { <<"VerifiableCredential">>,
      <<"VerifiableCredential", "SanctionCredential">> }

\* the decoded vc payloads; issuer may be missing (Partial<VcDataModel>)
VcPayloads ==
    { [credentialSubject |-> [k \in ks |-> SubjectValue[k]], issuer |-> i, type |-> t] :
        ks \in SUBSET SubjectKeys, i \in Issuers, t \in TypeLists }
    \cup
    { [credentialSubject |-> [k \in ks |-> SubjectValue[k]], type |-> t] :
        ks \in SUBSET SubjectKeys, t \in TypeLists }

\* a credential token: a JWT carrying a vc payload, or a string that is no JWT
Jwts == { [payload |-> [vc |-> v]] : v \in VcPayloads } \cup { [malformed |-> TRUE] }

\* the tokens that may follow the first one
RestJwts ==
    { [payload |-> [vc |-> [credentialSubject |-> SubjectValue,
                            issuer |-> "did:dht:issuer1",
                            type |-> <<"VerifiableCredential", "SanctionCredential">>]]],
      [payload |-> [vc |-> [credentialSubject |-> [k \in {} |-> "x"],
                            type |-> <<"VerifiableCredential">>]]],
      [malformed |-> TRUE] }

\* the constraints an offering's field list is built from
Constraints ==
    { [path |-> <<"$.credentialSubject.name">>],
      [path |-> <<"$.credentialSubject.name", "$.credentialSubject.country">>],
      [path |-> <<"$.credentialSubject.countryOfResidence">>],
      [path |-> <<"$.issuer">>, filter |-> [const |-> "did:dht:issuer1"]],
      [path |-> <<"$.type[*]">>, filter |-> [const |-> "SanctionCredential"]],
      [path |-> <<"$.type[*]", "$.credentialSubject.country">>,
       filter |-> [const |-> "SanctionCredential"]],
      [path |-> <<"$.vc.issuer", "$.issuer">>, filter |-> [const |-> "did:dht:issuer2"]] }

FieldLists == UNION { [1..n -> Constraints] : n \in 0..MaxFields }

Offerings ==
    { [data |-> [requiredClaims |->
          [input_descriptors |-> << [constraints |-> [fields |-> fs]] >>]]] :
        fs \in FieldLists }

CredentialLists ==
    { <<first>> \o rest : first \in Jwts,
                          rest \in UNION { [1..n -> RestJwts] : n \in 0..MaxRest } }

\* offering.data.requiredClaims.input_descriptors[0].constraints.fields
FieldsOf(o) == o.data.requiredClaims.input_descriptors[1].constraints.fields

\* Jwt.parse({ jwt }).decoded.payload['vc']; fails on a string that is no JWT
JwtParses(jwt) == "payload" \in DOMAIN jwt
JwtParse(jwt) == [decoded |-> [payload |-> jwt.payload]]

\* the body of the loop over the fields: what one field adds to matches
fieldMatches(field, vc) ==
    Cardinality({ key \in DOMAIN vc.credentialSubject :
                    arrayIncludes(field.path, "$.credentialSubject." \o key) })
    + (IF /\ arrayIncludes(field.path, "$.issuer")
          /\ "issuer" \in DOMAIN vc
          /\ field.filter.const = vc.issuer
       THEN 1 ELSE 0)
    + (IF /\ arrayIncludes(field.path, "$.type[*]")
          /\ "type" \in DOMAIN vc
          /\ arrayIncludes(vc.type, field.filter.const)
       THEN 1 ELSE 0)

RECURSIVE countMatches(_, _, _)
\* matches after the loop has run over fields[1..n]
countMatches(fields, vc, n) ==
    IF n = 0 THEN 0
    ELSE countMatches(fields, vc, n - 1) + fieldMatches(fields[n], vc)

\* the return statement with >= for ==
matchesAtLeastLength(matches, length) == matches >= length

\* the comparison of the return statement
matchesEqualLength(matches, length) == matches = length

isMatchingOffering(o, creds) ==
    IF ~JwtParses(creds[1]) THEN "throws"
    ELSE LET vc == JwtParse(creds[1]).decoded.payload.vc
             fields == FieldsOf(o)
             matches == countMatches(fields, vc, Len(fields))
         IN  IF matchesEqualLength(matches, Len(fields)) THEN "true" ELSE "false"

IsMatchingOffering ==
    /\ matchResult' = isMatchingOffering(offering, credentials)
    /\ UNCHANGED <<offering, credentials, statusVars, exchangeVars>>

-----------------------------------------------------------------------------
(* generateExchangeStatusValues and renderOrderStatus                      *)

\* the outcome of a call that faults on a property access of undefined / null
TypeError == "TypeError"

\* fragments close reasons are built from
Words ==
    { <<"C", "o", "m", "p", "l", "e", "t", "e">>,
      <<"c", "o", "m", "p">>, <<"l", "e", "t", "e", " ">>,
      <<"S", "U", "C", "C", "E", "S", "S">>,
      <<"E", "x", "p", "i", "r", "e", "d">>,
      <<"c", "a", "n", "c", "e", "l", "l", "e", "d">>,
      <<"u", "n">> }

RECURSIVE Flatten(_)
Flatten(ws) == IF ws = <<>> THEN <<>> ELSE Head(ws) \o Flatten(Tail(ws))

Reasons == { Flatten(ws) : ws \in UNION { [1..n -> Words] : n \in 0..MaxWords } }

\* a message as TbdexHttpClient parses it: an instance of the class of its kind
ClassOfKind ==
    [rfq |-> "Rfq", quote |-> "Quote", order |-> "Order",
     orderstatus |-> "OrderStatus", close |-> "Close"]

StatusValues ==
    {"rfq", "quote", "order", "orderstatus", "completed", "expired", "cancelled", "failed"}

\* what a caller may pass: a message, a bare string, or null / undefined
StatusArguments ==
    { [class |-> "Close", kind |-> "close", data |-> [reason |-> r]] : r \in Reasons }
    \cup { [class |-> ClassOfKind[k], kind |-> k] : k \in {"rfq", "quote", "order", "orderstatus"} }
    \cup { [primitive |-> s] : s \in StatusValues \cup {"pending payment"} }
    \cup { [nullish |-> TRUE] }

\* exchangeMessage instanceof Close
instanceofClose(m) == "class" \in DOMAIN m /\ m.class = "Close"

\* the chain with the 'cancelled' test moved to the front
closeStatusCancelledFirst(reason) ==
    IF includes(toLowerCase(reason), <<"c", "a", "n", "c", "e", "l", "l", "e", "d">>)
    THEN "cancelled"
    ELSE IF includes(toLowerCase(reason), <<"c", "o", "m", "p", "l", "e", "t", "e">>)
            \/ includes(toLowerCase(reason), <<"s", "u", "c", "c", "e", "s", "s">>)
    THEN "completed"
    ELSE IF includes(toLowerCase(reason), <<"e", "x", "p", "i", "r", "e", "d">>)
    THEN "expired"
    ELSE "failed"

\* the if / else-if chain over the lower-cased reason
closeStatus(reason) ==
    IF includes(toLowerCase(reason), <<"c", "o", "m", "p", "l", "e", "t", "e">>)
       \/ includes(toLowerCase(reason), <<"s", "u", "c", "c", "e", "s", "s">>)
    THEN "completed"
    ELSE IF includes(toLowerCase(reason), <<"e", "x", "p", "i", "r", "e", "d">>)
    THEN "expired"
    ELSE IF includes(toLowerCase(reason), <<"c", "a", "n", "c", "e", "l", "l", "e", "d">>)
    THEN "cancelled"
    ELSE "failed"

generateExchangeStatusValues(m) ==
    IF "nullish" \in DOMAIN m THEN TypeError
    ELSE IF instanceofClose(m) THEN closeStatus(m.data.reason)
    ELSE IF "kind" \in DOMAIN m THEN m.kind
    ELSE "undefined"

\* the switch without the case 'orderstatus'
statusLabelNoOrderStatus(s) ==
    CASE s = "rfq" -> "Requested"
      [] s = "quote" -> "Quoted"
      [] s = "order" -> "Pending"
      [] s = "completed" -> "Completed"
      [] s = "expired" -> "Expired"
      [] s = "cancelled" -> "Cancelled"
      [] s = "failed" -> "Failed"
      [] OTHER -> "Unknown status"

\* the switch over the status
statusLabel(s) ==
    CASE s = "rfq" -> "Requested"
      [] s = "quote" -> "Quoted"
      [] s \in {"order", "orderstatus"} -> "Pending"
      [] s = "completed" -> "Completed"
      [] s = "expired" -> "Expired"
      [] s = "cancelled" -> "Cancelled"
      [] s = "failed" -> "Failed"
      [] OTHER -> "Unknown status"

renderOrderStatus(exchange) ==
    LET s == generateExchangeStatusValues(exchange)
    IN  IF s = TypeError THEN TypeError ELSE statusLabel(s)

GenerateExchangeStatusValues ==
    /\ status' = generateExchangeStatusValues(exchangeMessage)
    /\ UNCHANGED <<exchangeMessage, label, matchVars, exchangeVars>>

RenderOrderStatus ==
    /\ label' = renderOrderStatus(exchangeMessage)
    /\ UNCHANGED <<exchangeMessage, status, matchVars, exchangeVars>>

-----------------------------------------------------------------------------
(* Numbers: Number(string), number + number, number.toString()             *)

\* the value NaN among the non-negative amounts of the model
NaN == -1

Digits == <<"0", "1", "2", "3", "4", "5", "6", "7", "8", "9">>

IsDigit(c) == \E d \in 1..Len(Digits) : Digits[d] = c
DigitValue(c) == (CHOOSE d \in 1..Len(Digits) : Digits[d] = c) - 1

RECURSIVE digitsValue(_)
\* the value of a string of decimal digits
digitsValue(s) ==
    IF s = <<>> THEN 0
    ELSE digitsValue(SubSeq(s, 1, Len(s) - 1)) * 10 + DigitValue(s[Len(s)])

\* Number(v) of undefined, null or a string
Number(v) ==
    IF v = Undefined THEN NaN
    ELSE IF v = Null THEN 0
    ELSE IF \A i \in 1..Len(v) : IsDigit(v[i]) THEN digitsValue(v)
    ELSE NaN

\* a + b of two numbers
numberAdd(a, b) == IF a = NaN \/ b = NaN THEN NaN ELSE a + b

RECURSIVE numberToString(_)
\* n.toString()
numberToString(n) ==
    IF n = NaN THEN <<"N", "a", "N">>
    ELSE IF n < 10 THEN <<Digits[n + 1]>>
    ELSE numberToString(n \div 10) \o <<Digits[(n % 10) + 1]>>

-----------------------------------------------------------------------------
(* The exchanges and their messages.                                       *)

CustomerDid == "did:dht:customer"
PfiDid == "did:dht:pfi"

\* createdAt of the n-th message of an exchange
Timestamps == <<"T0", "T1", "T2", "T3", "T4", "T5", "T6", "T7">>

ExchangeIds == <<"exchange_1", "exchange_2", "exchange_3", "exchange_4">>

\* privateData.payout.paymentDetails of an rfq
PaymentDetails ==
    { [address |-> <<"a", "d", "d", "r", "1">>],
      [accountNumber |-> <<"1", "2", "3">>, bankName |-> <<"K", "C", "B">>],
      [address |-> <<>>, accountNumber |-> <<"1", "2", "3">>, bankName |-> <<"K", "C", "B">>],
      [lnAddress |-> <<"l", "n", "1">>] }

\* the rfqs that open exchange id: with private payment details, or without privateData
Rfqs(id) ==
    { [class |-> "Rfq", kind |-> "rfq", createdAt |-> Timestamps[1],
       metadata |-> [exchangeId |-> id, from |-> CustomerDid, to |-> PfiDid],
       data |-> [payinAmount |-> <<"1", "0", "0">>],
       privateData |-> [payout |-> [paymentDetails |-> pd]]] : pd \in PaymentDetails }
    \cup
    { [class |-> "Rfq", kind |-> "rfq", createdAt |-> Timestamps[1],
       metadata |-> [exchangeId |-> id, from |-> CustomerDid, to |-> PfiDid],
       data |-> [payinAmount |-> <<"1", "0", "0">>]] }

\* data of a quote: fee, currency codes, payout amount and expiresAt may be missing
QuoteData ==
    { [payin |-> [amount |-> <<"1", "0", "0">>, fee |-> <<"5">>,
                  currencyCode |-> <<"U", "S", "D">>],
       payout |-> [amount |-> <<"9", "0">>, currencyCode |-> <<"K", "E", "S">>],
       expiresAt |-> <<"2", "0", "2", "4">>],
      [payin |-> [amount |-> <<"0", "9", "5">>, currencyCode |-> <<"U", "S", "D">>],
       payout |-> [amount |-> <<"9", "0">>, currencyCode |-> <<"K", "E", "S">>]],
      [payin |-> [amount |-> <<"7">>, fee |-> <<"0">>],
       payout |-> [currencyCode |-> <<"K", "E", "S">>],
       expiresAt |-> <<"2", "0", "2", "5">>],
      [payin |-> [amount |-> <<"1", "0", "0">>, fee |-> <<>>,
                  currencyCode |-> <<"U", "S", "D">>],
       payout |-> [amount |-> <<"9", "0">>]] }

Quotes(id, n) ==
    { [class |-> "Quote", kind |-> "quote", createdAt |-> Timestamps[n],
       metadata |-> [exchangeId |-> id, from |-> PfiDid, to |-> CustomerDid],
       data |-> d] : d \in QuoteData }

Order(id, n) ==
    [class |-> "Order", kind |-> "order", createdAt |-> Timestamps[n],
     metadata |-> [exchangeId |-> id, from |-> CustomerDid, to |-> PfiDid]]

OrderStatus(id, n) ==
    [class |-> "OrderStatus", kind |-> "orderstatus", createdAt |-> Timestamps[n],
     metadata |-> [exchangeId |-> id, from |-> PfiDid, to |-> CustomerDid]]

CloseReasons ==
    { <<"O", "r", "d", "e", "r", " ", "c", "a", "n", "c", "e", "l", "l", "e", "d">>,
      <<"S", "U", "C", "C", "E", "S", "S">> }

\* a close may come from either party
Closes(id, n) ==
    { [class |-> "Close", kind |-> "close", createdAt |-> Timestamps[n],
       metadata |-> [exchangeId |-> id, from |-> CustomerDid, to |-> PfiDid],
       data |-> [reason |-> r]] : r \in CloseReasons }

-----------------------------------------------------------------------------
(* fetchExchanges                                                          *)

Last(exchange) == exchange[Len(exchange)]

\* exchange.find(message => message.kind === kind): its index, 0 when there is none
find(exchange, kind) ==
    IF \E i \in 1..Len(exchange) : exchange[i].kind = kind
    THEN CHOOSE i \in 1..Len(exchange) :
            /\ exchange[i].kind = kind
            /\ \A j \in 1..(i - 1) : exchange[j].kind # kind
    ELSE 0

\* a || b
Or(a, b) == IF Truthy(a) THEN a ELSE b

\* rfqMessage.privateData?.payout.paymentDetails
PaymentDetailsOf(rfqMessage) ==
    IF "privateData" \in DOMAIN rfqMessage
    THEN rfqMessage.privateData.payout.paymentDetails
    ELSE UndefinedObject

\* the payinAmount expression of the summary
payinAmountOf(fee, payinAmount, rfqMessage) ==
    Or(numberToString(IF Truthy(fee)
                      THEN numberAdd(Number(payinAmount), Number(fee))
                      ELSE Number(payinAmount)),
       rfqMessage.data.payinAmount)

\* the to expression of the summary; + binds tighter than ||
toOf(payoutPaymentDetails) ==
    Or(Or(OptProp(payoutPaymentDetails, "address"),
          ToStr(OptProp(payoutPaymentDetails, "accountNumber"))
          \o <<",", " ">>
          \o ToStr(OptProp(payoutPaymentDetails, "bankName"))),
       <<"U", "n", "k", "n", "o", "w", "n">>)

\* the spread without the test of the latest message's kind
expirationTimeAlways(latestMessage, quoteMessage) ==
    [expirationTime |-> Coalesce(Prop(quoteMessage.data, "expiresAt"), Null)]

\* the spread of latestMessage.kind === 'quote' && {expirationTime: ...}
expirationTimeOf(latestMessage, quoteMessage) ==
    IF latestMessage.kind = "quote"
    THEN [expirationTime |-> Coalesce(Prop(quoteMessage.data, "expiresAt"), Null)]
    ELSE [k \in {} |-> Null]

\* createdTime read from the latest message
createdTimeOfLatest(rfqMessage, latestMessage) == latestMessage.createdAt

\* createdTime and pfiDid of the summary
createdTimeOf(rfqMessage, latestMessage) == rfqMessage.createdAt
pfiDidOf(rfqMessage, latestMessage) == rfqMessage.metadata.to

\* the callback of exchanges.map: the summary of one exchange, or a TypeError
projectExchange(exchange) ==
    LET latestMessage == Last(exchange)
        r == find(exchange, "rfq")
        q == find(exchange, "quote")
    IN  IF r = 0 \/ q = 0
        \* rfqMessage.privateData (line 100) or quoteMessage.data (line 104) of undefined
        THEN [threw |-> TRUE]
        ELSE
        LET rfqMessage == exchange[r]
            quoteMessage == exchange[q]
            fee == Prop(quoteMessage.data.payin, "fee")
            payinAmount == Prop(quoteMessage.data.payin, "amount")
            payoutPaymentDetails == PaymentDetailsOf(rfqMessage)
        IN  [threw |-> FALSE,
             summary |->
                [id |-> latestMessage.metadata.exchangeId,
                 payinAmount |-> payinAmountOf(fee, payinAmount, rfqMessage),
                 payinCurrency |->
                     Coalesce(Prop(quoteMessage.data.payin, "currencyCode"), Null),
                 payoutAmount |-> Coalesce(Prop(quoteMessage.data.payout, "amount"), Null),
                 payoutCurrency |-> Prop(quoteMessage.data.payout, "currencyCode"),
                 status |-> generateExchangeStatusValues(latestMessage),
                 createdTime |-> createdTimeOf(rfqMessage, latestMessage),
                 from |-> "You",
                 to |-> toOf(payoutPaymentDetails),
                 pfiDid |-> pfiDidOf(rfqMessage, latestMessage)]
                @@ expirationTimeOf(latestMessage, quoteMessage)]

\* a map that skips the exchanges whose projection faults
fetchExchangesPartial(got, networkOk) ==
    LET ok == { i \in 1..Len(got) : ~projectExchange(got[i]).threw }
        nth(k) == CHOOSE i \in ok : Cardinality({ j \in ok : j < i }) = k - 1
    IN  IF ~networkOk
        THEN [outcome |-> "throws", mappedExchanges |-> <<>>,
              message |-> "Error fetching exchanges: " \o "Error: fetch failed"]
        ELSE [outcome |-> "returns",
              mappedExchanges |->
                  [k \in 1..Cardinality(ok) |-> projectExchange(got[nth(k)]).summary],
              message |-> ""]

\* the try / catch around getExchanges and the map
fetchExchanges(got, networkOk) ==
    LET mapped == [i \in 1..Len(got) |-> projectExchange(got[i])]
    IN  IF ~networkOk
        THEN [outcome |-> "throws", mappedExchanges |-> <<>>,
              message |-> "Error fetching exchanges: " \o "Error: fetch failed"]
        ELSE IF \E i \in 1..Len(got) : mapped[i].threw
        THEN [outcome |-> "throws", mappedExchanges |-> <<>>,
              message |-> "Error fetching exchanges: "
                          \o "TypeError: Cannot read properties of undefined"]
        ELSE [outcome |-> "returns",
              mappedExchanges |-> [i \in 1..Len(got) |-> mapped[i].summary],
              message |-> ""]

\* what may follow the rfq of exchange id: the protocol's message orders
Tails(id) ==
    { <<>> }
    \cup { <<c>> : c \in Closes(id, 2) }
    \cup { <<q>> \o t :
             q \in Quotes(id, 2),
             t \in { <<>>, <<Order(id, 3)>>, <<Order(id, 3), OrderStatus(id, 4)>> }
                   \cup { <<c>> : c \in Closes(id, 3) } }

\* the message lists getExchanges may return for exchange id; a PFI may return
\* one that lacks its rfq
Histories(id) ==
    { <<r>> \o t : r \in Rfqs(id), t \in Tails(id) }
    \cup { <<q>> : q \in Quotes(id, 1) }

\* a second exchange of the batch
SecondExchanges(id) ==
    { h \in Histories(id) :
        /\ h[1].kind = "quote" => "fee" \in DOMAIN h[1].data.payin
        /\ h[1].kind = "rfq" => OptProp(PaymentDetailsOf(h[1]), "address") = <<>>
        /\ Len(h) > 1 => /\ "expiresAt" \in DOMAIN h[2].data
                         /\ "currencyCode" \in DOMAIN h[2].data.payin
        /\ Len(h) \in {1, 3}
        /\ Last(h).kind # "close" }

Batches ==
    { <<h>> : h \in Histories(ExchangeIds[1]) }
    \cup { <<h1, h2>> : h1 \in SecondExchanges(ExchangeIds[1]),
                         h2 \in SecondExchanges(ExchangeIds[2]) }

\* fetchExchanges({didState, pfiUri}): getExchanges answers or fails
FetchExchanges ==
    \E networkOk \in BOOLEAN :
        /\ fetched' = IF networkOk THEN exchanges ELSE <<>>
        /\ fetchResult' = fetchExchanges(exchanges, networkOk)
        /\ UNCHANGED <<exchanges, matchVars, statusVars>>

\* createExchange: sendRFQ opens a new exchange at the PFI.  The growing
\* exchanges carry one variant of each message's data; SpecProject covers the
\* other variants.
CreateExchange ==
    /\ Len(exchanges) < MaxExchanges
    /\ \E rfq \in Rfqs(ExchangeIds[Len(exchanges) + 1]) :
           /\ OptProp(PaymentDetailsOf(rfq), "address") = <<"a", "d", "d", "r", "1">>
           /\ exchanges' = Append(exchanges, <<rfq>>)
    /\ UNCHANGED <<fetched, fetchResult, matchVars, statusVars>>

CanGrow(e) ==
    /\ Len(exchanges[e]) < MaxMessages
    /\ Last(exchanges[e]).kind # "close"

AppendMessage(e, m) ==
    /\ exchanges' = [exchanges EXCEPT ![e] = Append(@, m)]
    /\ UNCHANGED <<fetched, fetchResult, matchVars, statusVars>>

\* the PFI answers an rfq with a quote
PfiQuote ==
    \E e \in 1..Len(exchanges) :
        /\ CanGrow(e)
        /\ Last(exchanges[e]).kind = "rfq"
        /\ \E m \in Quotes(ExchangeIds[e], Len(exchanges[e]) + 1) :
               /\ "fee" \in DOMAIN m.data.payin
               /\ "currencyCode" \in DOMAIN m.data.payin
               /\ "expiresAt" \in DOMAIN m.data
               /\ AppendMessage(e, m)

\* addOrder: sendOrder accepts the quote
AddOrder ==
    \E e \in 1..Len(exchanges) :
        /\ CanGrow(e)
        /\ Last(exchanges[e]).kind = "quote"
        /\ AppendMessage(e, Order(ExchangeIds[e], Len(exchanges[e]) + 1))

\* the PFI reports on the order
PfiOrderStatus ==
    \E e \in 1..Len(exchanges) :
        /\ CanGrow(e)
        /\ Last(exchanges[e]).kind \in {"order", "orderstatus"}
        /\ AppendMessage(e, OrderStatus(ExchangeIds[e], Len(exchanges[e]) + 1))

\* addClose: sendClose, or the PFI, closes the exchange
AddClose ==
    \E e \in 1..Len(exchanges) :
        /\ CanGrow(e)
        /\ \E m \in Closes(ExchangeIds[e], Len(exchanges[e]) + 1) :
               /\ closeStatus(m.data.reason) = "cancelled"
               /\ AppendMessage(e, m)

-----------------------------------------------------------------------------
(* Specifications.                                                         *)

IdleMatch ==
    /\ offering = CHOOSE o \in Offerings : FieldsOf(o) = <<>>
    /\ credentials = << [malformed |-> TRUE] >>
    /\ matchResult = NotCalled

IdleStatus ==
    /\ exchangeMessage = [nullish |-> TRUE]
    /\ status = NotCalled
    /\ label = NotCalled

IdleExchange ==
    /\ exchanges = <<>>
    /\ fetched = <<>>
    /\ fetchResult = [outcome |-> NotCalled, mappedExchanges |-> <<>>, message |-> ""]

\* isMatchingOffering on every offering and credential list of the bounds
InitMatch ==
    /\ offering \in Offerings
    /\ credentials \in CredentialLists
    /\ matchResult = NotCalled
    /\ IdleStatus
    /\ IdleExchange

NextMatch == IsMatchingOffering

SpecMatch == InitMatch /\ [][NextMatch]_vars

\* the status functions on every argument of the bounds
InitStatus ==
    /\ exchangeMessage \in StatusArguments
    /\ status = NotCalled
    /\ label = NotCalled
    /\ IdleMatch
    /\ IdleExchange

NextStatus == GenerateExchangeStatusValues \/ RenderOrderStatus

SpecStatus == InitStatus /\ [][NextStatus]_vars

\* exchanges grow message by message and are fetched at any time
InitExchange ==
    /\ IdleExchange
    /\ IdleMatch
    /\ IdleStatus

NextExchange ==
    \/ CreateExchange
    \/ PfiQuote
    \/ AddOrder
    \/ PfiOrderStatus
    \/ AddClose
    \/ FetchExchanges

SpecExchange == InitExchange /\ [][NextExchange]_vars

\* fetchExchanges on every batch of exchanges getExchanges may return
InitProject ==
    /\ exchanges \in Batches
    /\ fetched = <<>>
    /\ fetchResult = [outcome |-> NotCalled, mappedExchanges |-> <<>>, message |-> ""]
    /\ IdleMatch
    /\ IdleStatus

NextProject == FetchExchanges

SpecProject == InitProject /\ [][NextProject]_vars

-----------------------------------------------------------------------------
(* Properties of isMatchingOffering, checked under SpecMatch.              *)

\* what the claims say one constraint adds for the first credential's vc
ClaimFieldCount(field, vc) ==
    Cardinality({ k \in DOMAIN vc.credentialSubject :
                    \E i \in 1..Len(field.path) :
                        field.path[i] = "$.credentialSubject." \o k })
    + (IF /\ \E i \in 1..Len(field.path) : field.path[i] = "$.issuer"
          /\ "issuer" \in DOMAIN vc
          /\ field.filter.const = vc.issuer
       THEN 1 ELSE 0)
    + (IF /\ \E i \in 1..Len(field.path) : field.path[i] = "$.type[*]"
          /\ \E j \in 1..Len(vc.type) : vc.type[j] = field.filter.const
       THEN 1 ELSE 0)

RECURSIVE ClaimTotal(_, _)
ClaimTotal(fields, vc) ==
    IF fields = <<>> THEN 0
    ELSE ClaimFieldCount(Head(fields), vc) + ClaimTotal(Tail(fields), vc)

\* C1: isMatchingOffering returns true iff the match count, accumulated over the
\* constraints as +1 per referenced credentialSubject key, +1 for an equal issuer
\* and +1 for a contained type, equals the number of constraints; the count is
\* taken on the first credential alone, whatever follows it.
C1_MatchIffCountEqualsConstraints ==
    (matchResult # NotCalled /\ JwtParses(credentials[1])) =>
        /\ matchResult \in {"true", "false"}
        /\ (matchResult = "true") <=>
              (ClaimTotal(FieldsOf(offering), credentials[1].payload.vc)
                  = Len(FieldsOf(offering)))

\* C1 witness: a two-constraint offering matched by the first credential while a
\* second, unparsable credential follows it
C1_Witness ==
    /\ matchResult = "true"
    /\ Len(FieldsOf(offering)) = 2
    /\ Len(credentials) = 2
    /\ ~JwtParses(credentials[2])

\* C10: isMatchingOffering returns true only if every constraint of the field
\* list contributes at least one match for the first credential.
C10_TrueOnlyIfEveryConstraintMatches ==
    (matchResult = "true") =>
        \A i \in 1..Len(FieldsOf(offering)) :
            ClaimFieldCount(FieldsOf(offering)[i], credentials[1].payload.vc) >= 1

-----------------------------------------------------------------------------
(* Properties of the status functions, checked under SpecStatus.           *)

ClaimHas(reason, word) == includes(toLowerCase(reason), word)

ClaimComplete(reason) == ClaimHas(reason, <<"c", "o", "m", "p", "l", "e", "t", "e">>)
ClaimSuccess(reason) == ClaimHas(reason, <<"s", "u", "c", "c", "e", "s", "s">>)
ClaimExpired(reason) == ClaimHas(reason, <<"e", "x", "p", "i", "r", "e", "d">>)
ClaimCancelled(reason) ==
    ClaimHas(reason, <<"c", "a", "n", "c", "e", "l", "l", "e", "d">>)

\* the status the claims give a close message with this reason
ClaimCloseStatus(reason) ==
    CASE ClaimComplete(reason) \/ ClaimSuccess(reason) -> "completed"
      [] ~(ClaimComplete(reason) \/ ClaimSuccess(reason)) /\ ClaimExpired(reason) -> "expired"
      [] /\ ~(ClaimComplete(reason) \/ ClaimSuccess(reason))
         /\ ~ClaimExpired(reason)
         /\ ClaimCancelled(reason) -> "cancelled"
      [] OTHER -> "failed"

IsMessage(m) == "class" \in DOMAIN m

\* C2: for a close message generateExchangeStatusValues decides on the
\* lower-cased reason, first rule wins: 'complete' or 'success' gives completed,
\* else 'expired' gives expired, else 'cancelled' gives cancelled, else failed;
\* 'complete' with 'cancelled' gives completed, and 'expired' with 'cancelled'
\* (no earlier rule applying) gives expired; a non-close message gives its kind.
C2_CloseReasonFirstRuleWins ==
    (status # NotCalled /\ IsMessage(exchangeMessage)) =>
        IF exchangeMessage.kind = "close"
        THEN LET reason == exchangeMessage.data.reason
             IN  /\ status = ClaimCloseStatus(reason)
                 /\ (ClaimComplete(reason) /\ ClaimCancelled(reason))
                        => status = "completed"
                 /\ (/\ ClaimExpired(reason)
                     /\ ClaimCancelled(reason)
                     /\ ~ClaimComplete(reason)
                     /\ ~ClaimSuccess(reason))
                        => status = "expired"
        ELSE status = exchangeMessage.kind

\* C2 witness: a close reason with an upper-case 'Complete' and 'cancelled'
\* has been given the status completed
C2_Witness ==
    /\ status = "completed"
    /\ IsMessage(exchangeMessage)
    /\ exchangeMessage.kind = "close"
    /\ ClaimComplete(exchangeMessage.data.reason)
    /\ ClaimCancelled(exchangeMessage.data.reason)
    /\ toLowerCase(exchangeMessage.data.reason) # exchangeMessage.data.reason

\* the fixed label of each of the 8 status values
ClaimLabel ==
    [rfq |-> "Requested", quote |-> "Quoted", order |-> "Pending",
     orderstatus |-> "Pending", completed |-> "Completed", expired |-> "Expired",
     cancelled |-> "Cancelled", failed |-> "Failed"]

\* C8 as stated: given each of the 8 status values renderOrderStatus returns
\* its fixed label, given any other value 'Unknown status', and it never fails.
C8_TotalMappingOfStatusValues ==
    (label # NotCalled) =>
        /\ label # TypeError
        /\ "primitive" \in DOMAIN exchangeMessage =>
              label = IF exchangeMessage.primitive \in StatusValues
                      THEN ClaimLabel[exchangeMessage.primitive]
                      ELSE "Unknown status"

\* C8 amended: renderOrderStatus takes a message; it returns the fixed label of
\* the status generateExchangeStatusValues derives from it (the kind of a
\* non-close message, the reason's status of a close message); for a bare
\* string it returns 'Unknown status'; it fails only on null / undefined.
C8_LabelOfTheMessageStatus ==
    (label # NotCalled) =>
        /\ IsMessage(exchangeMessage) =>
              label = ClaimLabel[IF exchangeMessage.kind = "close"
                                 THEN ClaimCloseStatus(exchangeMessage.data.reason)
                                 ELSE exchangeMessage.kind]
        /\ "primitive" \in DOMAIN exchangeMessage => label = "Unknown status"
        /\ (label = TypeError) <=> ("nullish" \in DOMAIN exchangeMessage)

\* C8 witness: an orderstatus message has been rendered as Pending
C8_Witness ==
    /\ label = "Pending"
    /\ IsMessage(exchangeMessage)
    /\ exchangeMessage.kind = "orderstatus"

-----------------------------------------------------------------------------
(* Properties of fetchExchanges, checked under SpecProject and SpecExchange. *)

HasRfq(exchange) == \E i \in 1..Len(exchange) : exchange[i].kind = "rfq"
HasQuote(exchange) == \E i \in 1..Len(exchange) : exchange[i].kind = "quote"

FirstRfq(exchange) ==
    exchange[CHOOSE i \in 1..Len(exchange) :
                /\ exchange[i].kind = "rfq"
                /\ \A j \in 1..(i - 1) : exchange[j].kind # "rfq"]

FirstQuote(exchange) ==
    exchange[CHOOSE i \in 1..Len(exchange) :
                /\ exchange[i].kind = "quote"
                /\ \A j \in 1..(i - 1) : exchange[j].kind # "quote"]

\* getExchanges has answered and fetchExchanges has ended
Fetched == fetchResult.outcome # NotCalled /\ fetched # <<>>

Returned == fetchResult.outcome = "returns"

\* the payinAmount the claim gives an exchange with an rfq
ClaimPayinAmount(exchange) ==
    IF ~HasQuote(exchange) THEN FirstRfq(exchange).data.payinAmount
    ELSE LET payin == FirstQuote(exchange).data.payin
         IN  IF "fee" \in DOMAIN payin
             THEN numberToString(Number(payin.amount) + Number(payin.fee))
             ELSE numberToString(Number(payin.amount))

\* C3: an exchange with an rfq is projected with payinAmount = fee + amount of
\* the quote when it carries a fee, else the quote's amount, and the rfq's
\* payinAmount when there is no quote.
C3_PayinAmountFallsBackToRfq ==
    (Fetched /\ \A i \in 1..Len(fetched) : HasRfq(fetched[i])) =>
        /\ Returned
        /\ \A i \in 1..Len(fetched) :
              fetchResult.mappedExchanges[i].payinAmount = ClaimPayinAmount(fetched[i])

\* value of a field of the quote's payin / payout payload, null when missing
ClaimQuoteField(exchange, side, field) ==
    IF HasQuote(exchange) /\ field \in DOMAIN FirstQuote(exchange).data[side]
    THEN FirstQuote(exchange).data[side][field]
    ELSE Null

\* C4: every non-empty exchange with an rfq is projected to a summary whose
\* payinCurrency, payoutCurrency and payoutAmount are the quote's values when
\* present and null otherwise, also when there is no quote.
C4_QuoteFieldsOrNull ==
    (Fetched /\ \A i \in 1..Len(fetched) : HasRfq(fetched[i])) =>
        /\ Returned
        /\ \A i \in 1..Len(fetched) :
              LET summary == fetchResult.mappedExchanges[i]
              IN  /\ summary.payinCurrency
                        = ClaimQuoteField(fetched[i], "payin", "currencyCode")
                  /\ summary.payoutCurrency
                        = ClaimQuoteField(fetched[i], "payout", "currencyCode")
                  /\ summary.payoutAmount
                        = ClaimQuoteField(fetched[i], "payout", "amount")

\* the 'to' the claim derives from the rfq's payment details
ClaimTo(rfqMessage) ==
    LET given(field) ==
            /\ "privateData" \in DOMAIN rfqMessage
            /\ field \in DOMAIN rfqMessage.privateData.payout.paymentDetails
            /\ rfqMessage.privateData.payout.paymentDetails[field] # <<>>
        details == rfqMessage.privateData.payout.paymentDetails
    IN  IF given("address") THEN details.address
        ELSE IF given("accountNumber") /\ given("bankName")
        THEN details.accountNumber \o <<",", " ">> \o details.bankName
        ELSE <<"U", "n", "k", "n", "o", "w", "n">>

\* C5: in every summary 'to' is the address when one is given, otherwise the
\* account number with the bank name, otherwise the literal 'Unknown'.
C5_ToAddressAccountOrUnknown ==
    Returned =>
        \A i \in 1..Len(fetched) :
            fetchResult.mappedExchanges[i].to = ClaimTo(FirstRfq(fetched[i]))

\* C7: a summary has the field expirationTime iff the last message of its
\* exchange is a quote; its value is then the quote's expiresAt, or null when
\* the quote has none.
C7_ExpirationTimeOnlyForLatestQuote ==
    Returned =>
        \A i \in 1..Len(fetched) :
            LET summary == fetchResult.mappedExchanges[i]
                quote == FirstQuote(fetched[i])
            IN  /\ ("expirationTime" \in DOMAIN summary)
                      <=> (Last(fetched[i]).kind = "quote")
                /\ "expirationTime" \in DOMAIN summary =>
                      summary.expirationTime
                          = IF "expiresAt" \in DOMAIN quote.data
                            THEN quote.data.expiresAt ELSE Null

\* C7 witness: an exchange whose quote has an expiry and whose last message is
\* an order has been projected without the field
C7_Witness ==
    /\ Returned
    /\ \E i \in 1..Len(fetched) :
          /\ Last(fetched[i]).kind = "order"
          /\ "expiresAt" \in DOMAIN FirstQuote(fetched[i]).data
          /\ "expirationTime" \notin DOMAIN fetchResult.mappedExchanges[i]

ErrorPrefix == "Error fetching exchanges: "

\* C9: fetchExchanges returns one summary per fetched exchange, in the order
\* fetched, or fails with one error whose message starts with 'Error fetching
\* exchanges: ' and no summaries; it fails so when the fetch fails and when one
\* exchange of the batch cannot be projected, such as one without an rfq.
C9_AllOrNothing ==
    (fetchResult.outcome # NotCalled) =>
        /\ \/ /\ Returned
              /\ fetched = exchanges
              /\ Len(fetchResult.mappedExchanges) = Len(fetched)
              /\ \A i \in 1..Len(fetched) :
                    fetchResult.mappedExchanges[i].id = fetched[i][1].metadata.exchangeId
           \/ /\ fetchResult.outcome = "throws"
              /\ Len(fetchResult.message) >= Len(ErrorPrefix)
              /\ SubSeq(fetchResult.message, 1, Len(ErrorPrefix)) = ErrorPrefix
              /\ fetchResult.mappedExchanges = <<>>
        /\ (fetched = <<>> \/ \E i \in 1..Len(fetched) : ~HasRfq(fetched[i]))
              => fetchResult.outcome = "throws"

\* C9 witness: a batch of two whose first exchange projects and whose second
\* has no rfq has ended in the error
C9_Witness ==
    /\ fetchResult.outcome = "throws"
    /\ Len(fetched) = 2
    /\ HasRfq(fetched[1]) /\ HasQuote(fetched[1])
    /\ ~HasRfq(fetched[2])

\* every summary agrees with its exchange on status, createdTime and pfiDid
C6_SummaryFollowsExchange ==
    Returned =>
        \A i \in 1..Len(fetched) :
            LET summary == fetchResult.mappedExchanges[i]
            IN  /\ summary.status = generateExchangeStatusValues(Last(fetched[i]))
                /\ summary.createdTime = FirstRfq(fetched[i]).createdAt
                /\ summary.pfiDid = FirstRfq(fetched[i]).metadata.to

\* from one returned projection to the next, createdTime and pfiDid stay
C6_CreatedTimeAndPfiDidStay ==
    (Returned /\ Returned') =>
        \A i \in 1..Len(fetchResult.mappedExchanges) :
            /\ i <= Len(fetchResult'.mappedExchanges)
            /\ fetchResult'.mappedExchanges[i].createdTime
                  = fetchResult.mappedExchanges[i].createdTime
            /\ fetchResult'.mappedExchanges[i].pfiDid
                  = fetchResult.mappedExchanges[i].pfiDid

\* C6: as an exchange grows, every summary has the status of the last message
\* (generateExchangeStatusValues of it), createdTime = the rfq's createdAt and
\* pfiDid = the rfq's recipient, so createdTime and pfiDid never change
\* between successive projections.
C6_StatusFollowsLatestRfqFieldsStay ==
    [](C6_SummaryFollowsExchange) /\ [][C6_CreatedTimeAndPfiDidStay]_vars

\* C6 witness: an exchange closed after its quote has been projected as
\* cancelled, with the rfq's createdAt
C6_Witness ==
    /\ Returned
    /\ \E i \in 1..Len(fetched) :
          /\ Len(fetched[i]) = 3
          /\ Last(fetched[i]).kind = "close"
          /\ fetchResult.mappedExchanges[i].status = "cancelled"
          /\ fetchResult.mappedExchanges[i].createdTime = Timestamps[1]

====
